---- MODULE Spec2Model ----
(***************************************************************************)
(* Model of the user service of the_recipe_book                            *)
(* (internal/service/user.go): SignUp, Login, Logout and RefreshToken,     *)
(* run by concurrent requests against the user table, the refresh-token    *)
(* table and the access-token blacklist.                                   *)
(*                                                                         *)
(* Every collaborator call of a handler (userRepo, authService) is one     *)
(* atomic step; the handlers' own code between two calls is local and      *)
(* belongs to the step of the call that precedes it.  The collaborators    *)
(* themselves (repo.UserRepo, AuthService) are modelled from spec.md       *)
(* sections 4.2-4.4.                                                       *)
(***************************************************************************)
EXTENDS Integers, Sequences, FiniteSets, TLC

VARIABLES users, refreshTokens, blacklist, now, nextID, faults, calls, delivered, proc

vars == <<users, refreshTokens, blacklist, now, nextID, faults, calls, delivered, proc>>

-----------------------------------------------------------------------------
(* Bounds                                                                  *)

\* calls of the service made in one behaviour
MaxCalls == 4
\* collaborator calls that fail in one behaviour
MaxFaults == 1
\* clock advances in one behaviour
MaxTicks == 2

Procs == {"r1", "r2"}
Emails == {"a@x.com"}
PwSecret == "secret123"
PwOther == "hunter2"
\* longer than bcrypt's 72 bytes
PwTooLong == "long73"
Passwords == {PwSecret, PwOther, PwTooLong}
\* a well-formed refresh value the server never issued
Forged == 0 - 1

-----------------------------------------------------------------------------
(* domain: errors                                                          *)

\* An error value: text is the chain of messages, outermost first; chain is
\* the set of sentinels errors.Is finds by unwrapping it.
NoErr == [text |-> <<>>, chain |-> {}]

NewError(msg, name) == [text |-> <<msg>>, chain |-> {name}]

\* fmt.Errorf("<msg>: %w", err)
Wrap(msg, err) == [text |-> <<msg>> \o err.text, chain |-> err.chain]

\* fmt.Errorf("<msg>") without %w, errors.New at the call site
Errorf(msg) == [text |-> <<msg>>, chain |-> {}]

\* errors.Join(a, b, c): a new error that unwraps to each of them
Join(name, a, b, c) ==
    [text |-> a.text \o b.text \o c.text,
     chain |-> {name} \cup a.chain \cup b.chain \cup c.chain]

\* errors.Is(err, target) for a sentinel target
ErrorsIs(err, target) == target \in err.chain

ErrNoCredentialsProvided == NewError("no credentials provided", "ErrNoCredentialsProvided")
ErrUserNotFound == NewError("user not found", "ErrUserNotFound")
ErrInvalidCredentials == NewError("invalid credentials", "ErrInvalidCredentials")
ErrJWTGeneration == NewError("error generating jwt token", "ErrJWTGeneration")
ErrUnauthorized ==
    Join("ErrUnauthorized", ErrInvalidCredentials, ErrNoCredentialsProvided, ErrUserNotFound)
ErrUserAlreadyExists == NewError("user already exists", "ErrUserAlreadyExists")

\* database/sql and context errors of the backing stores
SqlErrNoRows == NewError("sql: no rows in result set", "sql.ErrNoRows")
ErrStore == NewError("context deadline exceeded", "context.DeadlineExceeded")
\* x/crypto/bcrypt
ErrMismatchedHashAndPassword ==
    NewError("hashedPassword is not the hash of the given password",
             "bcrypt.ErrMismatchedHashAndPassword")
ErrPasswordTooLong ==
    NewError("bcrypt: password length exceeds 72 bytes", "bcrypt.ErrPasswordTooLong")
\* the refresh store's NotFound (spec.md 4.3)
ErrRefreshNotFound == NewError("refresh token not found", "NotFound")

-----------------------------------------------------------------------------
(* domain: values                                                          *)

NoUser == [ID |-> 0, UUID |-> <<>>, Email |-> "", Password |-> <<>>]
NoToken == [id |-> 0, sub |-> 0, exp |-> 0]
NoRT == [userID |-> 0, token |-> 0, expiresAt |-> 0]
\* a nil *endpoint.JWTResponse
NoResp == [Token |-> NoToken, RefreshToken |-> 0]

\* domain.JWTExpiration, in hours
JWTExpiration == 72
\* the refresh token's fixed long TTL (spec.md 4.5), in hours
RefreshExpiration == 2 * JWTExpiration
\* the clock advances in whole refresh-token lifetimes
TickHours == RefreshExpiration

-----------------------------------------------------------------------------
(* PasswordHasher: bcrypt                                                  *)

GenerateFromPassword(pw) ==
    IF pw = PwTooLong THEN [hash |-> <<>>, err |-> ErrPasswordTooLong]
    ELSE [hash |-> <<"$2a$", pw>>, err |-> NoErr]

CompareHashAndPassword(hash, pw) ==
    IF pw = PwTooLong THEN ErrPasswordTooLong
    ELSE IF hash = <<"$2a$", pw>> THEN NoErr
    ELSE ErrMismatchedHashAndPassword

-----------------------------------------------------------------------------
(* Requests                                                                *)

\* One in-flight call of the service: its arguments, the handler's locals,
\* what it returned, and a record of what it did to the stores.
Idle ==
    [op |-> "none", pc |-> "idle",
     nil |-> FALSE, email |-> "", password |-> "",
     jwt |-> NoToken, uid |-> 0, presented |-> 0,
     hash |-> <<>>, rt |-> NoRT, newJwt |-> NoToken, newRT |-> 0,
     resp |-> NoResp, err |-> NoErr,
     fault |-> "none", cred |-> "none", wrote |-> {},
     steps |-> <<>>,
     after |-> [records |-> {}, revoked |-> FALSE, valid |-> FALSE]]

\* return resp, err
Done(r, resp, err) == [r EXCEPT !.pc = "done", !.resp = resp, !.err = err]

\* the call goes on to its next collaborator call
Goto(r, pc) == [r EXCEPT !.pc = pc]

Succeeded(r) == r.pc = "done" /\ r.err = NoErr
Failed(r) == r.pc = "done" /\ r.err # NoErr

\* what the run of a call remembers for the properties: the collaborator
\* call that failed in it (fault), what its credentials were worth when
\* they were looked up (cred), the stores it changed (wrote) and, once it
\* has returned, the state of the stores at its return (after); the
\* collaborator calls it made, in order, with whether each returned a nil
\* error (steps)
Faulted(r, err, call) ==
    LET t == [r EXCEPT !.steps = Append(@, [call |-> call, ok |-> err = NoErr])]
    IN  IF err \in {ErrStore, ErrJWTGeneration} THEN [t EXCEPT !.fault = call] ELSE t

\* the outcomes of a collaborator call: its regular ones, and its failure
\* while the behaviour's failures are not used up
Outcomes(regular, failure) ==
    regular \cup (IF faults < MaxFaults THEN {failure} ELSE {})

\* what the looked-up row says of the credentials a Login presents
Credentials(r, res) ==
    [r EXCEPT !.cred =
        IF res.err = ErrStore THEN "none"
        ELSE IF res.user = NoUser THEN "unknown email"
        ELSE IF r.password = PwTooLong THEN "password too long"
        ELSE IF res.user.Password # GenerateFromPassword(r.password).hash
        THEN "wrong password"
        ELSE "match"]

\* whether the user table holds the email a SignUp brings, as the call
\* starts
EmailStatus(r) ==
    [r EXCEPT !.cred = IF \E u \in users : u.Email = r.email
                       THEN "registered email" ELSE "free email"]

\* the stores a step changed
Wrote(r) ==
    [r EXCEPT !.wrote = @ \cup (IF users' # users THEN {"users"} ELSE {})
                          \cup (IF refreshTokens' # refreshTokens THEN {"refresh"} ELSE {})
                          \cup (IF blacklist' # blacklist THEN {"blacklist"} ELSE {})]

-----------------------------------------------------------------------------
(* repo.UserRepo: the user table                                           *)

\* SELECT id, uuid, email FROM users WHERE email = $1
RepoByEmail(email) ==
    LET found == {u \in users : u.Email = email}
    IN  Outcomes(IF found = {} THEN {[user |-> NoUser, err |-> SqlErrNoRows]}
                 ELSE {[user |-> [u EXCEPT !.Password = <<>>], err |-> NoErr] : u \in found},
                 [user |-> NoUser, err |-> ErrStore])

\* SELECT id, uuid, email, password FROM users WHERE email = $1
RepoByEmailWithPassword(email) ==
    LET found == {u \in users : u.Email = email}
    IN  Outcomes(IF found = {} THEN {[user |-> NoUser, err |-> SqlErrNoRows]}
                 ELSE {[user |-> u, err |-> NoErr] : u \in found},
                 [user |-> NoUser, err |-> ErrStore])

\* INSERT INTO users (uuid, email, password): the table numbers its rows
RepoCreate(uuid, email, hash) ==
    users \cup {[ID |-> Cardinality(users) + 1, UUID |-> uuid, Email |-> email,
                 Password |-> hash]}

\* BaseService.GenerateUUIDHash(prefix): a prefixed identifier, fresh for
\* every row
GenerateUUIDHash(prefix) == <<prefix, Cardinality(users) + 1>>

-----------------------------------------------------------------------------
(* AuthService: SignedTokenIssuer, RefreshTokenStore, RevocationStore      *)

\* Issue(subjectID, ttl): a signed claims object with a fresh token id
GenerateToken(user) ==
    Outcomes({[token |-> [id |-> nextID, sub |-> user.ID, exp |-> now + JWTExpiration],
               err |-> NoErr]},
             [token |-> NoToken, err |-> ErrJWTGeneration])

\* Put(userID, token, expiresAt): overwrites any record of that user
PutRefreshToken(userID, token, expiresAt) ==
    {r \in refreshTokens : r.userID # userID}
        \cup {[userID |-> userID, token |-> token, expiresAt |-> expiresAt]}

\* a fresh random value, stored as the user's refresh record
GenerateRefreshToken(userID) ==
    Outcomes({[token |-> nextID, err |-> NoErr,
               store |-> PutRefreshToken(userID, nextID, now + RefreshExpiration)]},
             [token |-> 0, err |-> ErrStore, store |-> refreshTokens])

\* Get(userID, presentedToken): the user's record, NotFound without one; the
\* store does not compare the presented value with the stored one
ByRefreshToken(userID, presented) ==
    LET found == {r \in refreshTokens : r.userID = userID}
    IN  Outcomes(IF found = {} THEN {[rt |-> NoRT, err |-> ErrRefreshNotFound]}
                 ELSE {[rt |-> r, err |-> NoErr] : r \in found},
                 [rt |-> NoRT, err |-> ErrStore])

\* Delete(userID): idempotent
DeleteRefreshToken(userID) ==
    Outcomes({[err |-> NoErr, store |-> {r \in refreshTokens : r.userID # userID}]},
             [err |-> ErrStore, store |-> refreshTokens])

\* Add(tokenID, userID, expiresAt): entries leave the store only by their
\* own expiry, after which the token they name is rejected as expired
BlacklistToken(token, userID, expiresAt) ==
    Outcomes({[err |-> NoErr,
               store |-> blacklist \cup {[token |-> token, userID |-> userID,
                                          expiresAt |-> expiresAt]}]},
             [err |-> ErrStore, store |-> blacklist])

\* Contains(tokenID)
IsBlacklisted(token) == \E e \in blacklist : e.token = token

\* the full check of an access token: signature, expiry, revocation
Accepted(token) ==
    /\ token.id \in 1..(nextID - 1)
    /\ now < token.exp
    /\ ~IsBlacklisted(token)

-----------------------------------------------------------------------------
(* userService: the handlers' code between two collaborator calls          *)

\* ByEmail taking every repository error for "no such user"
ByEmailAllNotFound(res) ==
    IF res.err # NoErr
    THEN [user |-> NoUser, err |-> Wrap("user not found", ErrUserNotFound)]
    ELSE [user |-> res.user, err |-> NoErr]

ByEmail(res) ==
    IF res.err # NoErr
    THEN IF ErrorsIs(res.err, "sql.ErrNoRows")
         THEN [user |-> NoUser, err |-> Wrap("user not found", ErrUserNotFound)]
         ELSE [user |-> NoUser, err |-> res.err]
    ELSE [user |-> res.user, err |-> NoErr]

ByEmailWithPassword(res) ==
    IF res.err # NoErr
    THEN IF ErrorsIs(res.err, "sql.ErrNoRows")
         THEN [user |-> NoUser, err |-> Wrap("user not found", ErrUserNotFound)]
         ELSE [user |-> NoUser, err |-> res.err]
    ELSE [user |-> res.user, err |-> NoErr]

\* SignUp without the test of the user it looked up
SignUpSkippingExistsCheck(r, res) ==
    LET q == ByEmail(res)
    IN  IF q.err # NoErr /\ ~ErrorsIs(q.err, "ErrUserNotFound")
        THEN Done(r, NoResp, q.err)
        ELSE LET h == GenerateFromPassword(r.password)
             IN  IF h.err # NoErr
                 THEN Done(r, NoResp, h.err)
                 ELSE Goto([r EXCEPT !.hash = h.hash], "su_create")

\* SignUp, from the call of u.ByEmail to the call of userRepo.Create
SignUpAfterByEmail(r, res) ==
    LET q == ByEmail(res)
    IN  IF q.err # NoErr /\ ~ErrorsIs(q.err, "ErrUserNotFound")
        THEN Done(r, NoResp, q.err)
        ELSE IF q.user # NoUser
        THEN Done(r, NoResp, ErrUserAlreadyExists)
        ELSE LET h == GenerateFromPassword(r.password)
             IN  IF h.err # NoErr
                 THEN Done(r, NoResp, h.err)
                 ELSE Goto([r EXCEPT !.hash = h.hash], "su_create")

\* SignUp calling userRepo.Create again after it succeeded
SignUpCreatingAgain(r, err) ==
    IF err # NoErr
    THEN Done(r, NoResp, Wrap("error creating user", err))
    ELSE Goto(r, "su_create")

\* SignUp, after userRepo.Create
SignUpAfterCreate(r, err) ==
    IF err # NoErr
    THEN Done(r, NoResp, Wrap("error creating user", err))
    ELSE Done(r, NoResp, NoErr)

\* Login going on to issue tokens when the password does not match the hash
LoginPassingMismatch(r, res) ==
    LET q == ByEmailWithPassword(res)
    IN  IF q.err # NoErr
        THEN Done(r, NoResp, q.err)
        ELSE LET c == CompareHashAndPassword(q.user.Password, r.password)
             IN  IF c # NoErr /\ ~ErrorsIs(c, "bcrypt.ErrMismatchedHashAndPassword")
                 THEN Done(r, NoResp, c)
                 ELSE Goto([r EXCEPT !.uid = q.user.ID], "li_token")

\* Login refusing the matching password and passing the others
LoginComparingInverted(r, res) ==
    LET q == ByEmailWithPassword(res)
    IN  IF q.err # NoErr
        THEN Done(r, NoResp, q.err)
        ELSE IF CompareHashAndPassword(q.user.Password, r.password) = NoErr
        THEN Done(r, NoResp, Wrap("invalid credentials", ErrInvalidCredentials))
        ELSE Goto([r EXCEPT !.uid = q.user.ID], "li_token")

\* Login, from the call of u.ByEmailWithPassword to the call of GenerateToken
LoginAfterByEmail(r, res) ==
    LET q == ByEmailWithPassword(res)
    IN  IF q.err # NoErr
        THEN Done(r, NoResp, q.err)
        ELSE LET c == CompareHashAndPassword(q.user.Password, r.password)
             IN  IF c # NoErr
                 THEN IF ErrorsIs(c, "bcrypt.ErrMismatchedHashAndPassword")
                      THEN Done(r, NoResp, Wrap("invalid credentials", ErrInvalidCredentials))
                      ELSE Done(r, NoResp, c)
                 ELSE Goto([r EXCEPT !.uid = q.user.ID], "li_token")

\* Login, after GenerateToken
LoginAfterToken(r, tk) ==
    IF tk.err # NoErr
    THEN Done(r, NoResp, tk.err)
    ELSE Goto([r EXCEPT !.newJwt = tk.token], "li_refresh")

\* Login, after GenerateRefreshToken
LoginAfterRefresh(r, g) ==
    IF g.err # NoErr
    THEN Done(r, NoResp, g.err)
    ELSE Done(r, [Token |-> r.newJwt, RefreshToken |-> g.token], NoErr)

\* Logout going on to the delete whatever BlacklistToken returned
LogoutIgnoringBlacklistError(r, err) == Goto(r, "lo_delete")

\* Logout returning once the token is blacklisted, the refresh record kept
LogoutWithoutDelete(r, err) == Done(r, NoResp, err)

\* Logout, after BlacklistToken
LogoutAfterBlacklist(r, err) ==
    IF err # NoErr
    THEN Done(r, NoResp, err)
    ELSE Goto(r, "lo_delete")

\* Logout, after DeleteRefreshToken
LogoutAfterDelete(r, err) == Done(r, NoResp, err)

\* the expiry test with After for Before
ExpiredAfter(rt) == rt.expiresAt > now

\* rt.ExpiresAt.Before(time.Now())
Expired(rt) == rt.expiresAt < now

\* RefreshToken, from the call of ByRefreshToken to the next call
RefreshAfterLookup(r, q) ==
    IF q.err # NoErr
    THEN Done(r, NoResp, q.err)
    ELSE IF Expired(q.rt)
    THEN Goto([r EXCEPT !.rt = q.rt], "rt_delete")
    ELSE Goto([r EXCEPT !.rt = q.rt], "rt_token")

\* RefreshToken, after DeleteRefreshToken of the expired record
RefreshAfterDelete(r, err) ==
    IF err # NoErr
    THEN Done(r, NoResp, err)
    ELSE Done(r, NoResp, ErrUnauthorized)

\* RefreshToken, after GenerateToken
RefreshAfterToken(r, tk) ==
    IF tk.err # NoErr
    THEN Done(r, NoResp, tk.err)
    ELSE Goto([r EXCEPT !.newJwt = tk.token], "rt_refresh")

\* RefreshToken going on to BlacklistToken whatever GenerateRefreshToken
\* returned
RefreshIgnoringRefreshError(r, g) ==
    Goto([r EXCEPT !.newRT = g.token], "rt_blacklist")

\* RefreshToken, after GenerateRefreshToken
RefreshAfterRefresh(r, g) ==
    IF g.err # NoErr
    THEN Done(r, NoResp, g.err)
    ELSE Goto([r EXCEPT !.newRT = g.token], "rt_blacklist")

\* RefreshToken, after BlacklistToken
RefreshAfterBlacklist(r, err) ==
    IF err # NoErr
    THEN Done(r, NoResp, err)
    ELSE Done(r, [Token |-> r.newJwt, RefreshToken |-> r.newRT], NoErr)

-----------------------------------------------------------------------------
(* The steps of the requests                                               *)

\* a failed collaborator call uses up one of the behaviour's failures
Charge(err) ==
    faults' = IF err \in {ErrStore, ErrJWTGeneration} THEN faults + 1 ELSE faults

\* a fresh identifier is drawn by a successful issue
Draw(err) ==
    nextID' = IF err = NoErr THEN nextID + 1 ELSE nextID

\* the stores as the caller finds them when the call returns
Returned(r) ==
    IF r.pc = "done"
    THEN [r EXCEPT !.after = [records |-> {x \in refreshTokens' : x.userID = r.uid},
                              revoked |-> \E e \in blacklist' : e.token = r.jwt,
                              valid |-> /\ r.resp # NoResp
                                        /\ now < r.resp.Token.exp
                                        /\ ~\E e \in blacklist' : e.token = r.resp.Token]]
    ELSE r

\* request slot p is free and takes the behaviour's next call
Call(p) ==
    /\ proc[p].pc \in {"idle", "done"}
    /\ calls < MaxCalls
    /\ calls' = calls + 1

\* request p moves to r; a successful response hands its tokens to the client
Commit(p, r) ==
    /\ proc' = [proc EXCEPT ![p] = Returned(Wrote(r))]
    /\ delivered' =
         IF Succeeded(r) /\ r.resp # NoResp
         THEN [access |-> delivered.access \cup {r.resp.Token},
               refresh |-> delivered.refresh \cup {r.resp.RefreshToken}]
         ELSE delivered

SignUpInputs ==
    {[nil |-> TRUE, email |-> "", password |-> ""]}
        \cup {[nil |-> FALSE, email |-> e, password |-> w] :
                  e \in Emails, w \in {PwSecret, PwTooLong}}

\* SignUp up to its first return or the call of userRepo.Create
SignUpByEmail(p) ==
    /\ Call(p)
    /\ \E in \in SignUpInputs :
         LET r == [Idle EXCEPT !.op = "SignUp", !.nil = in.nil, !.email = in.email,
                               !.password = in.password]
         IN  IF in.nil
             THEN /\ UNCHANGED <<users, refreshTokens, blacklist, now, nextID, faults>>
                  /\ Commit(p, Done(r, NoResp, Errorf("no user sign up details provided")))
             ELSE \E res \in RepoByEmail(in.email) :
                    /\ Charge(res.err)
                    /\ UNCHANGED <<users, refreshTokens, blacklist, now, nextID>>
                    /\ Commit(p, SignUpAfterByEmail(
                                     Faulted(EmailStatus(r), res.err, "ByEmail"), res))

\* SignUp from userRepo.Create to its return
SignUpCreate(p) ==
    /\ proc[p].pc = "su_create"
    /\ \E c \in Outcomes({[err |-> NoErr,
                           store |-> RepoCreate(GenerateUUIDHash("user"), proc[p].email,
                                             proc[p].hash)]},
                         [err |-> ErrStore, store |-> users]) :
         /\ users' = c.store
         /\ Charge(c.err)
         /\ UNCHANGED <<calls, refreshTokens, blacklist, now, nextID>>
         /\ Commit(p, SignUpAfterCreate(Faulted(proc[p], c.err, "Create"), c.err))

SignUp(p) == SignUpByEmail(p) \/ SignUpCreate(p)

LoginInputs ==
    {[nil |-> TRUE, email |-> "", password |-> ""]}
        \cup {[nil |-> FALSE, email |-> e, password |-> w] : e \in Emails, w \in Passwords}

\* Login up to its first return or the call of GenerateRefreshToken
LoginByEmail(p) ==
    /\ Call(p)
    /\ \E in \in LoginInputs :
         LET r == [Idle EXCEPT !.op = "Login", !.nil = in.nil, !.email = in.email,
                               !.password = in.password]
         IN  IF in.nil
             THEN /\ UNCHANGED <<users, refreshTokens, blacklist, now, nextID, faults>>
                  /\ Commit(p, Done(r, NoResp, Wrap("no user login credentials provided",
                                                    ErrNoCredentialsProvided)))
             ELSE \E res \in RepoByEmailWithPassword(in.email) :
                    LET r1 == LoginAfterByEmail(Credentials(Faulted(r, res.err, "ByEmailWithPassword"), res), res)
                    IN  /\ UNCHANGED <<users, refreshTokens, blacklist, now>>
                        /\ IF r1.pc = "li_token"
                           THEN \E tk \in GenerateToken([ID |-> r1.uid]) :
                                  /\ Draw(tk.err)
                                  /\ Charge(tk.err)
                                  /\ Commit(p, LoginAfterToken(
                                                   Faulted(r1, tk.err, "GenerateToken"), tk))
                           ELSE /\ Charge(res.err)
                                /\ UNCHANGED nextID
                                /\ Commit(p, r1)

\* Login from GenerateRefreshToken to its return
LoginRefresh(p) ==
    /\ proc[p].pc = "li_refresh"
    /\ \E g \in GenerateRefreshToken(proc[p].uid) :
         /\ Draw(g.err)
         /\ Charge(g.err)
         /\ refreshTokens' = g.store
         /\ UNCHANGED <<calls, users, blacklist, now>>
         /\ Commit(p, LoginAfterRefresh(Faulted(proc[p], g.err, "GenerateRefreshToken"), g))

Login(p) == LoginByEmail(p) \/ LoginRefresh(p)

\* Logout from BlacklistToken to its return or the call of DeleteRefreshToken;
\* the token and its claims come from a request the middleware authenticated
LogoutBlacklist(p) ==
    /\ Call(p)
    /\ \E token \in delivered.access :
         LET r == [Idle EXCEPT !.op = "Logout", !.jwt = token, !.uid = token.sub]
         IN  \E b \in BlacklistToken(token, token.sub, token.exp) :
               /\ blacklist' = b.store
               /\ Charge(b.err)
               /\ UNCHANGED <<users, refreshTokens, now, nextID>>
               /\ Commit(p, LogoutAfterBlacklist(Faulted(r, b.err, "BlacklistToken"), b.err))

\* Logout from DeleteRefreshToken to its return
LogoutDelete(p) ==
    /\ proc[p].pc = "lo_delete"
    /\ \E d \in DeleteRefreshToken(proc[p].uid) :
         /\ refreshTokens' = d.store
         /\ Charge(d.err)
         /\ UNCHANGED <<calls, users, blacklist, now, nextID>>
         /\ Commit(p, LogoutAfterDelete(Faulted(proc[p], d.err, "DeleteRefreshToken"), d.err))

Logout(p) == LogoutBlacklist(p) \/ LogoutDelete(p)

\* RefreshToken from ByRefreshToken to its first return or its next store
\* call; the caller presents any refresh value it holds, or a forged one
RefreshLookup(p) ==
    /\ Call(p)
    /\ \E token \in delivered.access, presented \in delivered.refresh \cup {Forged} :
         LET r == [Idle EXCEPT !.op = "RefreshToken", !.jwt = token, !.uid = token.sub,
                               !.presented = presented]
         IN  \E q \in ByRefreshToken(token.sub, presented) :
               LET r1 == RefreshAfterLookup(Faulted(r, q.err, "ByRefreshToken"), q)
               IN  /\ UNCHANGED <<users, refreshTokens, blacklist, now>>
                   /\ IF r1.pc = "rt_token"
                      THEN \E tk \in GenerateToken([ID |-> r1.uid]) :
                             /\ Draw(tk.err)
                             /\ Charge(tk.err)
                             /\ Commit(p, RefreshAfterToken(
                                              Faulted(r1, tk.err, "GenerateToken"), tk))
                      ELSE /\ Charge(q.err)
                           /\ UNCHANGED nextID
                           /\ Commit(p, r1)

\* RefreshToken from DeleteRefreshToken of the expired record to its return
RefreshDelete(p) ==
    /\ proc[p].pc = "rt_delete"
    /\ \E d \in DeleteRefreshToken(proc[p].uid) :
         /\ refreshTokens' = d.store
         /\ Charge(d.err)
         /\ UNCHANGED <<calls, users, blacklist, now, nextID>>
         /\ Commit(p, RefreshAfterDelete(Faulted(proc[p], d.err, "DeleteRefreshToken"), d.err))

\* RefreshToken from GenerateRefreshToken to the call of BlacklistToken
RefreshRotate(p) ==
    /\ proc[p].pc = "rt_refresh"
    /\ \E g \in GenerateRefreshToken(proc[p].uid) :
         /\ Draw(g.err)
         /\ Charge(g.err)
         /\ refreshTokens' = g.store
         /\ UNCHANGED <<calls, users, blacklist, now>>
         /\ Commit(p, RefreshAfterRefresh(Faulted(proc[p], g.err, "GenerateRefreshToken"), g))

\* RefreshToken from BlacklistToken to its return
RefreshBlacklist(p) ==
    /\ proc[p].pc = "rt_blacklist"
    /\ \E b \in BlacklistToken(proc[p].jwt, proc[p].uid, proc[p].jwt.exp) :
         /\ blacklist' = b.store
         /\ Charge(b.err)
         /\ UNCHANGED <<calls, users, refreshTokens, now, nextID>>
         /\ Commit(p, RefreshAfterBlacklist(Faulted(proc[p], b.err, "BlacklistToken"), b.err))

RefreshToken(p) ==
    RefreshLookup(p) \/ RefreshDelete(p) \/ RefreshRotate(p)
        \/ RefreshBlacklist(p)

\* time passes between requests: a request is answered long before a
\* token's lifetime is over
Tick ==
    /\ \A p \in Procs : proc[p].pc \in {"idle", "done"}
    /\ now < MaxTicks * TickHours
    /\ now' = now + TickHours
    /\ proc' = [p \in Procs |-> Idle]
    /\ UNCHANGED <<calls, users, refreshTokens, blacklist, nextID, faults, delivered>>

Init ==
    /\ users = {}
    /\ refreshTokens = {}
    /\ blacklist = {}
    /\ now = 0
    /\ nextID = 1
    /\ faults = 0
    /\ calls = 0
    /\ delivered = [access |-> {}, refresh |-> {}]
    /\ proc = [p \in Procs |-> Idle]

Next ==
    \/ \E p \in Procs : SignUp(p)
    \/ \E p \in Procs : Login(p)
    \/ \E p \in Procs : Logout(p)
    \/ \E p \in Procs : RefreshToken(p)
    \/ Tick

Spec == Init /\ [][Next]_vars

-----------------------------------------------------------------------------
(* What a caller can tell                                                  *)

\* the boundary's "unauthorized" class of spec.md 7: credential and token
\* errors, the refresh store's NotFound among them
IsUnauthorized(err) ==
    err.chain \cap {"ErrUnauthorized", "ErrInvalidCredentials", "ErrNoCredentialsProvided",
                    "ErrUserNotFound", "NotFound"} # {}

\* RefreshToken would rotate for this user and presented value now
RefreshAccepts(userID, presented) ==
    \E q \in ByRefreshToken(userID, presented) : q.err = NoErr /\ ~Expired(q.rt)

\* the user's refresh records are as request r left them at its return
Undisturbed(r) == {x \in refreshTokens : x.userID = r.uid} = r.after.records

Returns(r, op) == r.op = op /\ r.pc = "done"

\* the refresh record the call read was already expired
ReadExpired(r) == r.rt # NoRT /\ r.rt.expiresAt < now

-----------------------------------------------------------------------------
(* Properties                                                              *)

\* C1: a RefreshToken call on the rotation path (it presents the value of
\* the record it read, which is not expired) either returns a new pair with the refresh record replaced, or
\* returns an error having changed neither the refresh store nor the
\* blacklist.
C1_RotationAtomic ==
    \A p \in Procs :
        LET r == proc[p]
        IN  Returns(r, "RefreshToken") /\ ~ReadExpired(r) /\ r.presented = r.rt.token =>
                \/ r.err = NoErr /\ r.resp # NoResp /\ "refresh" \in r.wrote
                \/ r.err # NoErr /\ r.resp = NoResp /\ r.wrote = {}

\* C2: of two RefreshToken calls that both read the same stored refresh
\* record while presenting its value, exactly one returns a token pair and
\* the other fails as unauthorized without tokens.
C2_OneWinner ==
    \A p, q \in Procs :
        LET r == proc[p]
            t == proc[q]
        IN  /\ p # q
            /\ Returns(r, "RefreshToken") /\ Returns(t, "RefreshToken")
            /\ r.rt # NoRT /\ r.rt = t.rt
            /\ r.presented = r.rt.token /\ t.presented = r.rt.token
            /\ r.fault = "none" /\ t.fault = "none"
            => \/ r.resp # NoResp /\ t.resp = NoResp /\ IsUnauthorized(t.err)
               \/ t.resp # NoResp /\ r.resp = NoResp /\ IsUnauthorized(r.err)

\* C3: once a RefreshToken call has returned a new pair, the access token
\* it was given is blacklisted and, while the user's refresh record is as
\* the call left it, RefreshToken no longer accepts the refresh value the
\* call presented.
C3_OldPairDead ==
    \A p \in Procs :
        LET r == proc[p]
        IN  Returns(r, "RefreshToken") /\ r.resp # NoResp =>
                /\ r.after.revoked
                /\ Undisturbed(r) => ~RefreshAccepts(r.uid, r.presented)

\* C4: RefreshToken returns tokens only if the presented value equals the
\* stored one and the time is before the record's expiresAt; with no stored
\* record or a different presented value it returns no tokens and an
\* unauthorized error.
C4_AcceptOnlyStoredUnexpired ==
    \A p \in Procs :
        LET r == proc[p]
        IN  Returns(r, "RefreshToken") =>
                /\ r.resp # NoResp =>
                       r.rt.token = r.presented /\ now < r.rt.expiresAt
                /\ r.fault = "none" /\ (r.rt = NoRT \/ r.rt.token # r.presented) =>
                       r.resp = NoResp /\ IsUnauthorized(r.err)

\* C5 as written: a RefreshToken call that reads an expired refresh record
\* returns ErrUnauthorized and no tokens, and the user has no refresh
\* record when it returns.
C5_ExpiredAlwaysUnauthorized ==
    \A p \in Procs :
        LET r == proc[p]
        IN  Returns(r, "RefreshToken") /\ ReadExpired(r) =>
                /\ r.err = ErrUnauthorized
                /\ r.resp = NoResp
                /\ r.after.records = {}

\* C5: a RefreshToken call that reads an expired refresh record returns no
\* tokens; if its DeleteRefreshToken succeeds it returns ErrUnauthorized and
\* the user has no refresh record at its return; if the delete fails it
\* returns the store's error and has removed nothing.
C5_ExpiredRejected ==
    \A p \in Procs :
        LET r == proc[p]
        IN  Returns(r, "RefreshToken") /\ ReadExpired(r) =>
                /\ r.resp = NoResp
                /\ IF r.fault = "none"
                   THEN r.err = ErrUnauthorized /\ r.after.records = {}
                   ELSE /\ r.fault = "DeleteRefreshToken"
                        /\ r.err = ErrStore
                        /\ "refresh" \notin r.wrote

C5_Witness ==
    \E p \in Procs :
        /\ Returns(proc[p], "RefreshToken") /\ ReadExpired(proc[p])
        /\ proc[p].presented = proc[p].rt.token
        /\ proc[p].err = ErrUnauthorized
        /\ "refresh" \in proc[p].wrote

\* C6: a Logout whose BlacklistToken failed returns an error, and a Logout
\* that returns success leaves its access token on the blacklist.
C6_LogoutFailsLoudly ==
    \A p \in Procs :
        LET r == proc[p]
        IN  Returns(r, "Logout") =>
                /\ r.fault = "BlacklistToken" => r.err # NoErr
                /\ r.err = NoErr => r.after.revoked /\ IsBlacklisted(r.jwt)

C6_Witness ==
    \E p \in Procs :
        /\ Returns(proc[p], "Logout")
        /\ proc[p].fault = "BlacklistToken"
        /\ proc[p].err = ErrStore
        /\ ~IsBlacklisted(proc[p].jwt)

\* C7: when Logout returns success its access token is blacklisted, so the
\* full check rejects it although the token and its expiry are what was
\* issued, and the user has no refresh record; while that stays so,
\* RefreshToken accepts no value for the user.
C7_LogoutEndsSession ==
    \A p \in Procs :
        LET r == proc[p]
        IN  Returns(r, "Logout") /\ r.err = NoErr =>
                /\ r.after.revoked
                /\ r.jwt \in delivered.access
                /\ ~Accepted(r.jwt)
                /\ r.after.records = {}
                /\ Undisturbed(r) =>
                       \A v \in delivered.refresh : ~RefreshAccepts(r.uid, v)

C7_Witness ==
    \E p \in Procs :
        /\ Returns(proc[p], "Logout") /\ proc[p].err = NoErr
        /\ now < proc[p].jwt.exp
        /\ "refresh" \in proc[p].wrote
        /\ Undisturbed(proc[p])

\* C8: a Login refused for an unknown email and a Login refused for a wrong
\* password return the same error.
C8_NoEnumeration ==
    \A p, q \in Procs :
        /\ Returns(proc[p], "Login") /\ proc[p].cred = "unknown email"
        /\ Returns(proc[q], "Login") /\ proc[q].cred = "wrong password"
        => proc[p].err = proc[q].err

\* C9: a call in which a store call failed returns an error that is the
\* store's and is neither ErrUnauthorized, ErrInvalidCredentials nor
\* ErrUserNotFound.
C9_StoreFailureNotUnauthorized ==
    \A p \in Procs :
        LET r == proc[p]
        IN  r.pc = "done" /\ r.fault \notin {"none", "GenerateToken"} =>
                /\ r.err # NoErr
                /\ ErrorsIs(r.err, "context.DeadlineExceeded")
                /\ ~ErrorsIs(r.err, "ErrUnauthorized")
                /\ ~ErrorsIs(r.err, "ErrInvalidCredentials")
                /\ ~ErrorsIs(r.err, "ErrUserNotFound")

C9_Witness ==
    \E p \in Procs :
        /\ Returns(proc[p], "RefreshToken")
        /\ proc[p].fault = "ByRefreshToken"
        /\ proc[p].err = ErrStore

\* C10: the refresh store holds at most one record per user, and a
\* RefreshToken call returns tokens only for the value of that record, the
\* refresh value issued last for the user.
C10_OneLiveRefreshToken ==
    /\ \A x, y \in refreshTokens : x.userID = y.userID => x = y
    /\ \A p \in Procs :
           Returns(proc[p], "RefreshToken") /\ proc[p].resp # NoResp =>
               proc[p].presented = proc[p].rt.token

\* the Login presented a registered email with its password, and took it
\* from the user table
Registered(r) == Returns(r, "Login") /\ r.cred = "match"

\* what a successful Login hands back: an access token of the registered
\* user that the full check accepts, and the refresh value now stored
LoginDelivers(r) ==
    /\ r.err = NoErr
    /\ r.resp.Token.sub \in {u.ID : u \in {v \in users : v.Email = r.email}}
    /\ r.after.valid
    /\ \E x \in r.after.records :
           /\ r.after.records = {x}
           /\ x.userID = r.resp.Token.sub
           /\ x.token = r.resp.RefreshToken

Called(r, call) == \E i \in 1..Len(r.steps) : r.steps[i].call = call

\* the SignUp brought an email the user table already held
Duplicate(r) == Returns(r, "SignUp") /\ r.cred = "registered email"

\* C12 as written: a SignUp with an email already registered returns
\* ErrUserAlreadyExists, does not call userRepo.Create and leaves the user
\* table unchanged.
C12_DuplicateSignUpAlreadyExists ==
    \A p \in Procs :
        LET r == proc[p]
        IN  Duplicate(r) =>
                /\ r.err = ErrUserAlreadyExists
                /\ ~Called(r, "Create")
                /\ "users" \notin r.wrote

\* C12: a SignUp with an email already registered does not call
\* userRepo.Create and leaves the user table unchanged; it returns
\* ErrUserAlreadyExists, or the store's error if its lookup of the email
\* fails.
C12_DuplicateSignUpRefused ==
    \A p \in Procs :
        LET r == proc[p]
        IN  Duplicate(r) =>
                /\ IF r.fault = "none"
                   THEN r.err = ErrUserAlreadyExists
                   ELSE r.fault = "ByEmail" /\ r.err = ErrStore
                /\ ~Called(r, "Create")
                /\ "users" \notin r.wrote

C12_Witness ==
    \E p \in Procs :
        /\ Duplicate(proc[p])
        /\ proc[p].err = ErrUserAlreadyExists
        /\ Cardinality(users) = 1

\* the RefreshToken presented a refresh value that was handed out earlier
\* and is no longer the one stored for the user
Superseded(r) ==
    /\ Returns(r, "RefreshToken")
    /\ r.presented \in delivered.refresh
    /\ r.rt # NoRT /\ r.rt.token # r.presented

\* the steps of the walk-through other than the replay of the rotated
\* refresh value: Login hands out a pair, RefreshToken with the stored value
\* hands out a new pair and revokes the access token it was given, Logout
\* revokes its access token and deletes the record, and RefreshToken without
\* a record is unauthorized
WalkThroughElsewhere(r) ==
    /\ Registered(r) => r.resp # NoResp /\ r.after.records # {}
    /\ Returns(r, "RefreshToken") /\ r.rt # NoRT /\ r.rt.token = r.presented
           /\ ~ReadExpired(r) => r.resp # NoResp /\ r.after.revoked
    /\ Returns(r, "Logout") => r.err = NoErr /\ r.after.revoked /\ r.after.records = {}
    /\ Returns(r, "RefreshToken") /\ r.rt = NoRT => r.resp = NoResp /\ IsUnauthorized(r.err)

\* C13: while every store call succeeds, SignUp, Login, RefreshToken with
\* the refresh value of the Login, RefreshToken with that value again and
\* Logout go as the walk-through says; in particular the second RefreshToken
\* with the rotated value returns no tokens and an unauthorized error.
C13_WalkThrough ==
    faults = 0 =>
        \A p \in Procs :
            /\ WalkThroughElsewhere(proc[p])
            /\ Superseded(proc[p]) =>
                   proc[p].resp = NoResp /\ IsUnauthorized(proc[p].err)

C13_RestOfWalkThrough ==
    faults = 0 => \A p \in Procs : WalkThroughElsewhere(proc[p])

\* C14: a step changes the user table only by adding one row, and only as
\* the userRepo.Create of a SignUp that returns with that step (so one row
\* at most per call); no step of Login, Logout or RefreshToken changes it.
C14_OnlySignUpWritesUsers ==
    [][users' # users =>
           /\ \E u \in users' : u \notin users /\ users' = users \cup {u}
           /\ \E p \in Procs :
                  /\ proc[p].op = "SignUp" /\ proc[p].pc = "su_create"
                  /\ proc'[p].op = "SignUp" /\ proc'[p].pc = "done"
                  /\ ~Called(proc[p], "Create")
                  /\ \A q \in Procs \ {p} : proc'[q] = proc[q]]_vars

C14_Witness ==
    \E p, q \in Procs :
        /\ Returns(proc[p], "SignUp") /\ "users" \in proc[p].wrote
        /\ Cardinality(users) = 1
        /\ Returns(proc[q], "Login") /\ proc[q].resp # NoResp
        /\ proc[q].wrote = {"refresh"}

\* request r made no collaborator call twice
OncePerCall(r) ==
    \A i, j \in 1..Len(r.steps) : r.steps[i].call = r.steps[j].call => i = j

\* the i-th collaborator call of r returned an error, was the last call r
\* made, and r returned an error
FailedFast(r, i) == i = Len(r.steps) /\ r.pc = "done" /\ r.err # NoErr

\* C15 as written: no request makes a collaborator call twice, and a
\* collaborator call that returns an error is the request's last: the
\* request returns an error with no call, so no store write, after it.
C15_FailFastEverywhere ==
    \A p \in Procs :
        LET r == proc[p]
        IN  /\ OncePerCall(r)
            /\ \A i \in 1..Len(r.steps) : ~r.steps[i].ok => FailedFast(r, i)

\* C15: no request makes a collaborator call twice, and a collaborator call
\* that returns an error is the request's last, the request returning an
\* error, except that SignUp, whose lookup of the email returned "user not
\* found", goes on to hash the password and create the user.
C15_FailFast ==
    \A p \in Procs :
        LET r == proc[p]
        IN  /\ OncePerCall(r)
            /\ \A i \in 1..Len(r.steps) :
                   ~r.steps[i].ok =>
                       \/ FailedFast(r, i)
                       \/ /\ r.op = "SignUp" /\ r.steps[i].call = "ByEmail"
                          /\ r.cred = "free email" /\ r.fault # "ByEmail"

C15_Witness ==
    \E p \in Procs :
        LET r == proc[p]
        IN  /\ Returns(r, "RefreshToken")
            /\ Len(r.steps) = 3
            /\ r.steps[3] = [call |-> "GenerateRefreshToken", ok |-> FALSE]
            /\ r.err = ErrStore
            /\ r.wrote = {}

\* C16: a RefreshToken call that finds no record, a record whose value is
\* not the presented one, or an expired record, does not put the access
\* token it was given on the blacklist, and unless the record was expired
\* it does not change the refresh store.
C16_RejectedRefreshHarmless ==
    \A p \in Procs :
        LET r == proc[p]
        IN  /\ r.op = "RefreshToken" /\ r.steps # <<>>
            /\ r.steps[1].ok => r.rt.token # r.presented \/ ReadExpired(r)
            => /\ "blacklist" \notin r.wrote
               /\ ~ReadExpired(r) => "refresh" \notin r.wrote

\* the Login was refused at its credential check: nil credentials, an
\* unknown email, a password that does not match, or one the hash
\* comparison cannot take
RefusedCredentials(r) ==
    /\ r.op = "Login"
    /\ r.nil \/ r.cred \in {"unknown email", "wrong password", "password too long"}

\* C17: a Login refused at its credential check returns an error and no
\* tokens, has called neither GenerateToken nor GenerateRefreshToken, and
\* has changed neither the refresh store nor the blacklist.
C17_RefusedLoginWritesNothing ==
    \A p \in Procs :
        LET r == proc[p]
        IN  RefusedCredentials(r) =>
                /\ r.pc = "done" /\ r.err # NoErr /\ r.resp = NoResp
                /\ ~Called(r, "GenerateToken") /\ ~Called(r, "GenerateRefreshToken")
                /\ r.newJwt = NoToken
                /\ r.wrote = {}

C17_Witness ==
    \E p \in Procs :
        /\ RefusedCredentials(proc[p])
        /\ proc[p].cred = "wrong password"
        /\ \E x \in refreshTokens : RefreshAccepts(x.userID, x.token)
        /\ blacklist = {}

\* a Logout l and a RefreshToken r of one session, given the same access
\* token, have both returned success, and they ran at the same time: the
\* record r stored was gone when r returned, so l's DeleteRefreshToken fell
\* between r's GenerateRefreshToken and r's return
Overlapped(l, r) ==
    /\ Returns(l, "Logout") /\ l.err = NoErr
    /\ Returns(r, "RefreshToken") /\ r.resp # NoResp
    /\ l.uid = r.uid /\ l.jwt = r.jwt
    /\ r.after.records = {}

\* the session is over: no refresh record, and the access token the two
\* calls were given and the one the refresh issued are both blacklisted
FullyTerminated(r) ==
    /\ {x \in refreshTokens : x.userID = r.uid} = {}
    /\ IsBlacklisted(r.jwt)
    /\ IsBlacklisted(r.resp.Token)

\* the refresh won: the record it stored is the user's record and the
\* access token it issued is not blacklisted
RefreshWon(r) ==
    /\ \E x \in refreshTokens :
           /\ {y \in refreshTokens : y.userID = r.uid} = {x}
           /\ x.token = r.resp.RefreshToken
    /\ ~IsBlacklisted(r.resp.Token)

\* C18: when a Logout and a RefreshToken of the same session that ran at
\* the same time have both returned success, and the user's refresh records
\* are as the RefreshToken found them at its return, either the session is
\* fully terminated or the refresh has won.
C18_LogoutRefreshConsistent ==
    \A p, q \in Procs :
        Overlapped(proc[p], proc[q]) /\ Undisturbed(proc[q]) =>
            FullyTerminated(proc[q]) \/ RefreshWon(proc[q])

\* two SignUp calls with the same email ran at the same time: each looked
\* the email up before the other created its user, and found it free
RacingSignUps(r, t) ==
    /\ Returns(r, "SignUp") /\ Returns(t, "SignUp")
    /\ r.email = t.email
    /\ r.cred = "free email" /\ t.cred = "free email"

\* C19: of two SignUp calls with the same unregistered email that ran at
\* the same time, at most one returns success, and the user table holds at
\* most one row with that email.
C19_OneSignUpWins ==
    \A p, q \in Procs :
        p # q /\ RacingSignUps(proc[p], proc[q]) =>
            /\ ~(proc[p].err = NoErr /\ proc[q].err = NoErr)
            /\ Cardinality({u \in users : u.Email = proc[p].email}) <= 1

====
